---- MODULE Spec2Model ----
(***************************************************************************)
(* argon-router-paths: compile(template) and the parse / build pair it     *)
(* returns (packages/argon-router-paths/lib/compile.ts).                   *)
(*                                                                         *)
(* Strings are sequences of one-character strings, so that split, join,    *)
(* the template regular expression, encodeURI and decodeURI are computed   *)
(* character by character as the code and the JavaScript library do.       *)
(***************************************************************************)
EXTENDS Integers, Sequences, FiniteSets, TLC

VARIABLES
    template,      \* the string given to compile
    phase,         \* which call has been made last
    blocks,        \* compile's closure variable `blocks`
    parseInput,    \* the string given to parse
    parseResult,   \* what parse returned
    buildParams,   \* the mapping given to build
    buildResult    \* what build returned (or the error it threw)

vars == <<template, phase, blocks, parseInput, parseResult, buildParams, buildResult>>

(***************************************************************************)
(* Bounds of the model.                                                    *)
(***************************************************************************)
\* most tokens in a template
MaxBlocks == 2
\* most segments in a path given to parse: one more than the longest template,
\* so that a path can run past the template's descriptors
MaxSegs == MaxBlocks + 1

(***************************************************************************)
(* Characters.                                                             *)
(***************************************************************************)
Letters == {"a", "b", "e", "i", "m", "n", "p", "r", "t", "u", "x", "C", "E", "F"}
Digits == {"0", "1", "2", "3", "5", "7"}
\* the regular expression class \w
WordChars == Letters \cup Digits \cup {"_"}
HexDigits == Digits \cup {"a", "b", "e", "C", "E", "F"}

Max(S) == CHOOSE x \in S : \A y \in S : y <= x
Min(S) == CHOOSE x \in S : \A y \in S : x <= y

(***************************************************************************)
(* String.prototype.split(sep), Array.prototype.join(sep) and              *)
(* Array.prototype.filter(Boolean) on arrays of strings.                   *)
(***************************************************************************)
RECURSIVE SplitAcc(_, _, _, _, _)
SplitAcc(s, sep, i, cur, acc) ==
    IF i > Len(s) THEN Append(acc, cur)
    ELSE IF s[i] = sep THEN SplitAcc(s, sep, i + 1, <<>>, Append(acc, cur))
    ELSE SplitAcc(s, sep, i + 1, Append(cur, s[i]), acc)

Split(s, sep) == SplitAcc(s, sep, 1, <<>>, <<>>)

RECURSIVE Join(_, _)
Join(segs, sep) ==
    IF segs = <<>> THEN <<>>
    ELSE IF Len(segs) = 1 THEN segs[1]
    ELSE segs[1] \o <<sep>> \o Join(Tail(segs), sep)

NonEmpty(s) == s # <<>>

\* filter(Boolean) on an array of strings drops the empty strings
FilterBoolean(segs) == SelectSeq(segs, NonEmpty)

(***************************************************************************)
(* encodeURI and decodeURI (ECMAScript), on the characters of the model.   *)
(* encodeURI leaves letters, digits and ; / ? : @ & = + $ , # - _ . ! ~ *  *)
(* ' ( ) alone and escapes every other character; decodeURI replaces an    *)
(* escape by its character unless that character is one of ; / ? : @ & = + *)
(* $ , #, and throws URIError on a % that two hex digits do not follow.    *)
(***************************************************************************)
EscapeOf(c) ==
    CASE c = "%" -> <<"%", "2", "5">>
      [] c = " " -> <<"%", "2", "0">>
      [] c = "<" -> <<"%", "3", "C">>
      [] c = ">" -> <<"%", "3", "E">>
      [] c = "|" -> <<"%", "7", "C">>
      [] OTHER -> <<c>>

\* encodeURI that escapes nothing
encodeURINoEscape(s) == s

RECURSIVE encodeURI(_)
encodeURI(s) ==
    IF s = <<>> THEN <<>> ELSE EscapeOf(Head(s)) \o encodeURI(Tail(s))

\* the character an escape stands for; escapes of reserved characters stay
UnescapeOf(h1, h2) ==
    CASE h1 = "2" /\ h2 = "5" -> <<"%">>
      [] h1 = "2" /\ h2 = "0" -> <<" ">>
      [] h1 = "3" /\ h2 = "C" -> <<"<">>
      [] h1 = "3" /\ h2 = "E" -> <<">">>
      [] h1 = "7" /\ h2 = "C" -> <<"|">>
      [] h1 = "2" /\ h2 = "F" -> <<"%", "2", "F">>

URIError == <<"URIError">>

RECURSIVE decodeFrom(_, _, _)
decodeFrom(s, i, acc) ==
    IF i > Len(s) THEN acc
    ELSE IF s[i] # "%" THEN decodeFrom(s, i + 1, Append(acc, s[i]))
    ELSE IF i + 2 > Len(s) \/ s[i + 1] \notin HexDigits \/ s[i + 2] \notin HexDigits
         THEN URIError
    ELSE decodeFrom(s, i + 3, acc \o UnescapeOf(s[i + 1], s[i + 2]))

decodeURI(s) == decodeFrom(s, 1, <<>>)

(***************************************************************************)
(* parseInt(string) and Number.prototype.toString() on the non-negative    *)
(* integers: parseInt reads the longest prefix of digits and is NaN when   *)
(* there is none.                                                          *)
(***************************************************************************)
DigitValue(c) ==
    CASE c = "0" -> 0 [] c = "1" -> 1 [] c = "2" -> 2 [] c = "3" -> 3
      [] c = "5" -> 5 [] c = "7" -> 7

DigitChar(d) ==
    CASE d = 0 -> "0" [] d = 1 -> "1" [] d = 2 -> "2" [] d = 3 -> "3" [] d = 4 -> "4"
      [] d = 5 -> "5" [] d = 6 -> "6" [] d = 7 -> "7" [] d = 8 -> "8" [] d = 9 -> "9"

RECURSIVE DigitsValue(_, _, _)
DigitsValue(s, i, acc) ==
    IF i > Len(s) \/ s[i] \notin Digits THEN acc
    ELSE DigitsValue(s, i + 1, acc * 10 + DigitValue(s[i]))

\* -1 stands for NaN
NaN == -1
parseInt(s) == IF s = <<>> \/ s[1] \notin Digits THEN NaN ELSE DigitsValue(s, 1, 0)
isNaN(n) == n = NaN

RECURSIVE NumToString(_)
NumToString(n) ==
    IF n < 10 THEN <<DigitChar(n)>>
    ELSE Append(NumToString(n \div 10), DigitChar(n % 10))

(***************************************************************************)
(* JavaScript values: what parse puts in params and what build is given.   *)
(***************************************************************************)
Undefined == [k |-> "undefined", s |-> <<>>, n |-> 0, a |-> <<>>]
NullV == [k |-> "null", s |-> <<>>, n |-> 0, a |-> <<>>]
Obj == [k |-> "object", s |-> <<>>, n |-> 0, a |-> <<>>]
Str(s) == [k |-> "string", s |-> s, n |-> 0, a |-> <<>>]
Num(n) == [k |-> "number", s |-> <<>>, n |-> n, a |-> <<>>]
False == [k |-> "boolean", s |-> <<>>, n |-> 0, a |-> <<>>]
True == [k |-> "boolean", s |-> <<>>, n |-> 1, a |-> <<>>]
Arr(items) == [k |-> "array", s |-> <<>>, n |-> 0, a |-> items]

\* Truthy as a test for definedness (v !== undefined)
TruthyDefined(v) == v.k # "undefined"

\* !v is false: undefined, null, "", 0, NaN and false are falsy; arrays and objects are not
Truthy(v) ==
    CASE v.k = "undefined" -> FALSE
      [] v.k = "null" -> FALSE
      [] v.k = "string" -> v.s # <<>>
      [] v.k = "number" -> v.n # 0 /\ ~isNaN(v.n)
      [] v.k = "boolean" -> v.n = 1
      [] OTHER -> TRUE

(***************************************************************************)
(* compile: the template's tokens become blocks.                           *)
(***************************************************************************)
\* the end of the longest run of characters of `set` that starts at `from`
\* (from - 1 when there is none)
RunEnd(tok, from, set) ==
    Max({q \in (from - 1)..Len(tok) : \A j \in from..q : tok[j] \in set})

NoMatch == [matched |-> FALSE, name |-> <<>>, generic |-> <<>>, modificator |-> ""]

\* block.match(/:(\w+)(<[\w|]+>)?([+*?])?/): the leftmost match anywhere in the
\* token; an undefined group is <<>> (generic) or "" (modificator)
Match(tok) ==
    LET starts == {p \in 1..(Len(tok) - 1) : tok[p] = ":" /\ tok[p + 1] \in WordChars}
    IN  IF starts = {} THEN NoMatch
        ELSE
          LET p == Min(starts)
              ne == RunEnd(tok, p + 1, WordChars)
              ge == RunEnd(tok, ne + 2, WordChars \cup {"|"})
              hasGeneric == /\ ne + 1 <= Len(tok) /\ tok[ne + 1] = "<"
                            /\ ge >= ne + 2
                            /\ ge + 1 <= Len(tok) /\ tok[ge + 1] = ">"
              after == IF hasGeneric THEN ge + 2 ELSE ne + 1
          IN  [matched |-> TRUE,
               name |-> SubSeq(tok, p + 1, ne),
               generic |-> IF hasGeneric THEN SubSeq(tok, ne + 1, ge + 1) ELSE <<>>,
               modificator |-> IF after <= Len(tok) /\ tok[after] \in {"+", "*", "?"}
                               THEN tok[after] ELSE ""]

\* String.prototype.replace(c, ''): the first occurrence of c removed
RemoveFirst(s, c) ==
    LET at == {j \in 1..Len(s) : s[j] = c}
    IN  IF at = {} THEN s
        ELSE SubSeq(s, 1, Min(at) - 1) \o SubSeq(s, Min(at) + 1, Len(s))

Includes(seq, x) == \E j \in 1..Len(seq) : seq[j] = x

StrNumber == <<"n", "u", "m", "b", "e", "r">>

\* RawRules: type is "string", "number" or "union" (with values); array says
\* whether rules.array is set, minLength is rules.array.minLength ?? 0;
\* compile never sets maxLength
NoRules ==
    [required |-> TRUE, type |-> "string", values |-> <<>>, array |-> FALSE, minLength |-> 0]

\* RulesOf with "*" given the minimum length of "+"
RulesOfMinOne(generic, modificator) ==
    LET type == RemoveFirst(RemoveFirst(generic, "<"), ">")
        isUnion == generic # <<>> /\ Includes(type, "|")
    IN  [required |-> modificator # "?",
         type |-> IF isUnion THEN "union"
                  ELSE IF generic # <<>> /\ type = StrNumber THEN "number"
                  ELSE "string",
         values |-> IF isUnion THEN FilterBoolean(Split(type, "|")) ELSE <<>>,
         array |-> modificator \in {"*", "+"},
         minLength |-> IF modificator \in {"+", "*"} THEN 1 ELSE 0]

\* the rules compile derives from the generic and the modificator
RulesOf(generic, modificator) ==
    LET type == RemoveFirst(RemoveFirst(generic, "<"), ">")
        isUnion == generic # <<>> /\ Includes(type, "|")
    IN  [required |-> modificator # "?",
         type |-> IF isUnion THEN "union"
                  ELSE IF generic # <<>> /\ type = StrNumber THEN "number"
                  ELSE "string",
         values |-> IF isUnion THEN FilterBoolean(Split(type, "|")) ELSE <<>>,
         array |-> modificator \in {"*", "+"},
         minLength |-> IF modificator = "+" THEN 1 ELSE 0]

Part(value) ==
    [type |-> "part", value |-> value, name |-> <<>>, required |-> FALSE, rules |-> NoRules]

Parameter(name, rules) ==
    [type |-> "parameter", value |-> <<>>, name |-> name,
     required |-> rules.required, rules |-> rules]

\* the block of one token, or the error compile throws for it
BlockOf(tok) ==
    LET m == Match(tok)
    IN  IF ~m.matched THEN [error |-> FALSE, block |-> Part(tok)]
        ELSE IF m.name = <<>> THEN [error |-> TRUE, block |-> Part(tok)]
        ELSE [error |-> FALSE, block |-> Parameter(m.name, RulesOf(m.generic, m.modificator))]

\* compile(path): [error, blocks]
compile(path) ==
    LET parsedBlocks == FilterBoolean(Split(path, "/"))
        each == [j \in 1..Len(parsedBlocks) |-> BlockOf(parsedBlocks[j])]
    IN  [error |-> \E j \in 1..Len(each) : each[j].error,
         blocks |-> [j \in 1..Len(each) |-> each[j].block]]

(***************************************************************************)
(* createControls: a cursor into the raw segments.  The controls are       *)
(* modelled by the cursor's position; getInput reads the segment there     *)
(* (undefined past the end) and next moves the cursor by one.              *)
(***************************************************************************)
UndefinedInput == <<"undefined">>

createControls(startPosition) == startPosition

getInput(parsed, i) == IF i \in 1..Len(parsed) THEN parsed[i] ELSE UndefinedInput

next(i) == i + 1

\* !input
FalsyInput(in) == in = UndefinedInput \/ in = <<>>

(***************************************************************************)
(* generateValidator.                                                      *)
(***************************************************************************)
\* baseValidator without the union case
baseValidatorNoUnion(rules, in) ==
    IF rules.required /\ FalsyInput(in) THEN FALSE
    ELSE IF FalsyInput(in) THEN TRUE
    ELSE IF rules.type = "number" THEN ~isNaN(parseInt(in))
    ELSE TRUE

baseValidator(rules, in) ==
    IF rules.required /\ FalsyInput(in) THEN FALSE
    ELSE IF FalsyInput(in) THEN TRUE
    ELSE IF rules.type = "union" THEN Includes(rules.values, in)
    ELSE IF rules.type = "number" THEN ~isNaN(parseInt(in))
    ELSE TRUE

\* validatorLoop with a failing segment ending the loop (break) instead of
\* failing the validation
RECURSIVE validatorLoopBreaks(_, _, _, _)
validatorLoopBreaks(rules, parsed, i, length) ==
    LET current == getInput(parsed, i)
    IN  IF ~FalsyInput(current) /\ baseValidator(rules, current)
        THEN validatorLoopBreaks(rules, parsed, next(i), length + 1)
        ELSE ~(length < rules.minLength)

\* the while loop of the array branch and the length test after it; `length`
\* is result.length, and maxLength ?? Infinity never stops the loop
RECURSIVE validatorLoop(_, _, _, _)
validatorLoop(rules, parsed, i, length) ==
    LET current == getInput(parsed, i)
    IN  IF ~FalsyInput(current)
        THEN IF ~baseValidator(rules, current) THEN FALSE
             ELSE validatorLoop(rules, parsed, next(i), length + 1)
        ELSE ~(length < rules.minLength)

\* validator with the array branch taken for every rule
validatorArrayAlways(rules, parsed, controls) ==
    validatorLoop(rules, parsed, controls, 0)

validator(rules, parsed, controls) ==
    IF rules.array THEN validatorLoop(rules, parsed, controls, 0)
    ELSE
      LET in == getInput(parsed, controls)
      IN  IF rules.required /\ FalsyInput(in) THEN FALSE
          ELSE IF FalsyInput(in) THEN TRUE
          ELSE baseValidator(rules, in)

(***************************************************************************)
(* generateParser.                                                         *)
(***************************************************************************)
baseParser(rules, in) ==
    IF rules.required /\ FalsyInput(in) THEN NullV
    ELSE IF FalsyInput(in) THEN Undefined
    ELSE IF rules.type = "number" THEN Num(parseInt(in))
    ELSE Str(in)

RECURSIVE parserLoop(_, _, _, _)
parserLoop(rules, parsed, i, result) ==
    LET current == getInput(parsed, i)
    IN  IF ~FalsyInput(current)
        THEN parserLoop(rules, parsed, next(i), Append(result, baseParser(rules, current)))
        ELSE IF Len(result) < rules.minLength THEN Undefined ELSE Arr(result)

parser(rules, parsed, controls) ==
    IF rules.array THEN parserLoop(rules, parsed, controls, <<>>)
    ELSE
      LET in == getInput(parsed, controls)
      IN  IF rules.required /\ FalsyInput(in) THEN NullV
          ELSE IF FalsyInput(in) THEN Undefined
          ELSE baseParser(rules, in)

(***************************************************************************)
(* parse.  A result is [kind, path, nullParams, params]: kind "null" is    *)
(* the null return, "URIError" the exception decodeURI throws; params is   *)
(* the mapping when nullParams is FALSE.                                   *)
(***************************************************************************)
NoParams == <<>>

ParseNull == [kind |-> "null", path |-> <<>>, nullParams |-> TRUE, params |-> NoParams]
ParseThrew == [kind |-> "URIError", path |-> <<>>, nullParams |-> TRUE, params |-> NoParams]
NotCalled == [kind |-> "none", path |-> <<>>, nullParams |-> TRUE, params |-> NoParams]

\* params[name] = payload
Assign(params, name, payload) ==
    [x \in (DOMAIN params) \cup {name} |-> IF x = name THEN payload ELSE params[x]]

\* the position in the raw segments at which parse matches block i:
\* parsed[i] and createControls(parsed, i), the block's own index
StartPosition(i) == i

\* the raw segments of an input that decodes
RawSegments(in) == FilterBoolean(Split(decodeURI(in), "/"))

RECURSIVE parseLoop(_, _, _, _, _, _)
parseLoop(bs, in, parsed, i, nullParams, params) ==
    IF i > Len(bs) THEN [kind |-> "ok", path |-> in, nullParams |-> nullParams, params |-> params]
    ELSE
      LET compiledBlock == bs[i]
          rawBlock == getInput(parsed, StartPosition(i))
      IN  IF compiledBlock.type = "part"
          THEN IF compiledBlock.value # rawBlock THEN ParseNull
               ELSE parseLoop(bs, in, parsed, i + 1, nullParams, params)
          ELSE IF ~validator(compiledBlock.rules, parsed, createControls(StartPosition(i)))
          THEN ParseNull
          ELSE
            LET parsedPayload ==
                  parser(compiledBlock.rules, parsed, createControls(StartPosition(i)))
            IN  IF parsedPayload = NullV THEN ParseNull
                ELSE parseLoop(bs, in, parsed, i + 1, FALSE,
                               Assign(params, compiledBlock.name, parsedPayload))

parse(bs, in) ==
    IF decodeURI(in) = URIError THEN ParseThrew
    ELSE parseLoop(bs, in, RawSegments(in), 1, TRUE, NoParams)

(***************************************************************************)
(* build.  A result is [kind, path, name]: kind "ok" with the path, or the *)
(* error thrown: "missing" (with the parameter's name), "object", or       *)
(* "TypeError" when a property of an absent mapping is read.               *)
(***************************************************************************)
\* param.map(stringifyParam).join('/'), given each item's result
JoinItems(rs) ==
    [threw |-> \E j \in 1..Len(rs) : rs[j].threw,
     s |-> Join([j \in 1..Len(rs) |-> rs[j].s], "/")]

StrTrue == <<"t", "r", "u", "e">>

\* [threw, s]; typeof null is 'object'
RECURSIVE stringifyParam(_)
stringifyParam(param) ==
    IF param.k = "array"
    THEN IF Len(param.a) = 0 THEN [threw |-> FALSE, s |-> <<>>]
         ELSE JoinItems([j \in 1..Len(param.a) |-> stringifyParam(param.a[j])])
    ELSE IF param.k \in {"object", "null"} THEN [threw |-> TRUE, s |-> <<>>]
    ELSE IF ~Truthy(param) THEN [threw |-> FALSE, s |-> <<>>]
    ELSE [threw |-> FALSE,
          s |-> CASE param.k = "string" -> param.s
                  [] param.k = "number" -> NumToString(param.n)
                  [] param.k = "boolean" -> StrTrue]

\* anyParams[name]
Lookup(params, name) == IF name \in DOMAIN params THEN params[name] ELSE Undefined

BuildThrew(kind, name) == [kind |-> kind, path |-> <<>>, name |-> name]
NotBuilt == [kind |-> "none", path |-> <<>>, name |-> <<>>]

RECURSIVE buildLoop(_, _, _, _)
buildLoop(bs, p, i, result) ==
    IF i > Len(bs)
    THEN [kind |-> "ok", name |-> <<>>,
          path |-> encodeURI(<<"/">> \o Join(FilterBoolean(result), "/"))]
    ELSE
      LET block == bs[i]
          value == Lookup(p.params, block.name)
      IN  IF block.type = "part" THEN buildLoop(bs, p, i + 1, Append(result, block.value))
          ELSE IF p.nullParams THEN BuildThrew("TypeError", <<>>)
          ELSE IF ~Truthy(value) /\ block.required THEN BuildThrew("missing", block.name)
          ELSE IF ~Truthy(value) /\ ~block.required THEN buildLoop(bs, p, i + 1, result)
          ELSE IF stringifyParam(value).threw THEN BuildThrew("object", <<>>)
          ELSE buildLoop(bs, p, i + 1, Append(result, stringifyParam(value).s))

\* p is [nullParams, params]
build(bs, p) == buildLoop(bs, p, 1, <<>>)

(***************************************************************************)
(* The inputs of the model.                                                *)
(***************************************************************************)
SeqsUpTo(S, n) == UNION {[1..len -> S] : len \in 0..n}

\* template tokens
TokPart == <<"p">>
TokStr == <<":", "i">>
TokOpt == <<":", "i", "?">>
TokPlus == <<":", "i", "+">>
TokStar == <<":", "i", "*">>
TokNum == <<":", "n", "<", "n", "u", "m", "b", "e", "r", ">">>
TokNumStar == TokNum \o <<"*">>
TokUnion == <<":", "u", "<", "a", "|", "p", ">">>
TokUnionOpt == TokUnion \o <<"?">>
TokUnionPlus == TokUnion \o <<"+">>
TokUnionStar == TokUnion \o <<"*">>
TokUnionDash == <<":", "u", "<", "a", "-", "b", "|", "p", ">">>
TokColon == <<":">>
TokColonPlus == <<":", "+">>
TokColonNum == <<":", "<", "n", "u", "m", "b", "e", "r", ">">>
TokMid == <<"p", ":", "i">>
TokNumOpt == TokNum \o <<"?">>
TokUStar == <<":", "u", "*">>

ParseTokens ==
    {TokPart, TokStr, TokOpt, TokPlus, TokStar, TokNum, TokNumStar,
     TokUnion, TokUnionOpt, TokUnionPlus, TokUnionStar, TokUnionDash}

AllTokens == ParseTokens \cup {TokColon, TokColonPlus, TokColonNum, TokMid}

BuildTokens == {TokPart, TokStr, TokOpt, TokNumOpt, TokUStar}

PathOf(segs) == <<"/">> \o Join(segs, "/")

TemplatesOver(tokens) == {PathOf(ts) : ts \in SeqsUpTo(tokens, MaxBlocks)}

\* raw path segments
SegP == <<"p">>
SegA == <<"a">>
Seg1 == <<"1">>
Seg0 == <<"0">>
Segs == {SegP, SegA, Seg1, Seg0}

\* paths with an escape, a malformed escape, a numeric prefix, empty segments
\* and no leading slash
SpecialPaths ==
    {<<"/", "p", "/", "%", "2", "5">>,
     <<"/", "p", "/", "%">>,
     <<"/", "p", "/", "%", "2", "F">>,
     <<"/", "1", "7", "x">>,
     <<"/", "/", "p", "/", "/", "a", "/">>,
     <<"p", "/", "1">>}

Paths == {PathOf(ss) : ss \in SeqsUpTo(Segs, MaxSegs)} \cup SpecialPaths

\* values given to build
BuildValues ==
    {Undefined, NullV, Obj, False, True,
     Str(<<>>), Str(<<"a">>), Str(<<"a", "/", "p">>), Str(<<"%">>),
     Num(0), Num(17),
     Arr(<<>>), Arr(<<Str(<<"a">>), Str(<<"p">>)>>), Arr(<<Num(0), Str(<<"a">>)>>),
     Arr(<<Obj>>)}

\* the names of a template's parameters
Names(bs) == {bs[j].name : j \in {x \in 1..Len(bs) : bs[x].type = "parameter"}}

Mapping(params) == [nullParams |-> FALSE, params |-> params]
NullMapping == [nullParams |-> TRUE, params |-> NoParams]

(***************************************************************************)
(* The state machine: compile once, then calls of parse and build.         *)
(***************************************************************************)
InitWith(tokens) ==
    /\ template \in TemplatesOver(tokens)
    /\ phase = "start"
    /\ blocks = <<>>
    /\ parseInput = <<>>
    /\ parseResult = NotCalled
    /\ buildParams = NullMapping
    /\ buildResult = NotBuilt

Init == InitWith(AllTokens)
InitParse == InitWith(ParseTokens)
InitBuild == InitWith(BuildTokens)

\* compile(template)
Compile ==
    /\ phase = "start"
    /\ LET r == compile(template)
       IN  /\ phase' = IF r.error THEN "threw" ELSE "compiled"
           /\ blocks' = IF r.error THEN <<>> ELSE r.blocks
    /\ UNCHANGED <<template, parseInput, parseResult, buildParams, buildResult>>

\* parse(path)
Parse ==
    /\ phase = "compiled"
    /\ \E path \in Paths :
         /\ parseInput' = path
         /\ parseResult' = parse(blocks, path)
    /\ phase' = "parsed"
    /\ UNCHANGED <<template, blocks, buildParams, buildResult>>

\* build(params) with the params a parse returned
BuildParsed ==
    /\ phase = "parsed"
    /\ parseResult.kind = "ok"
    /\ buildParams' = [nullParams |-> parseResult.nullParams, params |-> parseResult.params]
    /\ buildResult' = build(blocks, buildParams')
    /\ phase' = "rebuilt"
    /\ UNCHANGED <<template, blocks, parseInput, parseResult>>

\* build(params) with a mapping of the caller's
Build ==
    /\ phase = "compiled"
    /\ \E params \in [Names(blocks) -> BuildValues] :
         /\ buildParams' = Mapping(params)
         /\ buildResult' = build(blocks, buildParams')
    /\ phase' = "built"
    /\ UNCHANGED <<template, blocks, parseInput, parseResult>>

\* parse(path) with the path a build returned
ParseBuilt ==
    /\ phase \in {"rebuilt", "built"}
    /\ buildResult.kind = "ok"
    /\ parseInput' = buildResult.path
    /\ parseResult' = parse(blocks, buildResult.path)
    /\ phase' = IF phase = "rebuilt" THEN "reparsed" ELSE "builtParsed"
    /\ UNCHANGED <<template, blocks, buildParams, buildResult>>

Next == Compile \/ Parse \/ BuildParsed \/ Build \/ ParseBuilt
NextParse == Compile \/ Parse
NextBuild == Compile \/ Build \/ ParseBuilt

Spec == Init /\ [][Next]_vars
SpecParse == InitParse /\ [][NextParse]_vars
SpecBuild == InitBuild /\ [][NextBuild]_vars

(***************************************************************************)
(* Vocabulary of the properties.                                           *)
(***************************************************************************)
\* the template's tokens, one per block
Tokens == FilterBoolean(Split(template, "/"))

Compiled == phase \notin {"start", "threw"}

\* parse has been called and has returned (null or a result) rather than thrown
ParseReturned == phase = "parsed" /\ parseResult.kind \in {"ok", "null"}

\* the raw segments of the path last parsed
RawOfInput == RawSegments(parseInput)

IsArray(b) == b.type = "parameter" /\ b.rules.array

\* no later block carries block j's name
LastOfName(j) == \A x \in (j + 1)..Len(blocks) : blocks[x].name # blocks[j].name

\* the raw segments from position `from` on
Rest(segs, from) == SubSeq(segs, from, Len(segs))

\* the blocks before block j match the raw segments
PrefixOk(raw, j) ==
    parseLoop(SubSeq(blocks, 1, j - 1), parseInput, raw, 1, TRUE, NoParams).kind = "ok"

\* the typed value of one raw segment under a rule
Typed(rules, seg) == IF rules.type = "number" THEN Num(parseInt(seg)) ELSE Str(seg)

TypedAll(rules, segs) == Arr([x \in 1..Len(segs) |-> Typed(rules, segs[x])])

\* some segment fails the rule's base validation
SomeFails(rules, segs) == \E x \in 1..Len(segs) : ~baseValidator(rules, segs[x])

(***************************************************************************)
(* C4: compile fails whenever the template holds a parameter token with no *)
(* name (a token that starts with ":" with no identifier character after   *)
(* it).  The code's regular expression needs a name to match at all, so    *)
(* such a token is a literal and the throw is never reached.               *)
(***************************************************************************)
UnnamedParameter(tok) == tok[1] = ":" /\ (Len(tok) = 1 \/ tok[2] \notin WordChars)

C4_UnnamedParameterFails ==
    (phase # "start" /\ \E j \in 1..Len(Tokens) : UnnamedParameter(Tokens[j]))
        => phase = "threw"

(***************************************************************************)
(* C5: every token that does not begin with ":" is a Literal holding the   *)
(* whole token: parse succeeds only when the raw segment at its position   *)
(* equals the token, and the token gives params no name.                   *)
(***************************************************************************)
C5_TokenWithoutColonIsLiteral ==
    Compiled =>
        \A j \in 1..Len(Tokens) :
            Tokens[j][1] # ":" =>
                /\ blocks[j] = Part(Tokens[j])
                /\ (phase = "parsed" /\ parseResult.kind = "ok")
                       => getInput(RawOfInput, j) = Tokens[j]

(***************************************************************************)
(* C8: parse keeps one cursor: each descriptor is matched where the run of *)
(* the previous one ended, so after an array parameter at position s has   *)
(* consumed k segments the next descriptor is matched at position s + k,   *)
(* and no raw segment is consumed by two descriptors.                      *)
(***************************************************************************)
\* the raw segments block j consumes when matched at its position
Consumed(j) ==
    IF IsArray(blocks[j])
    THEN Len(parser(blocks[j].rules, RawOfInput, createControls(StartPosition(j))).a)
    ELSE 1

C8_SingleCursor ==
    (phase = "parsed" /\ parseResult.kind = "ok") =>
        \A j \in 1..(Len(blocks) - 1) :
            StartPosition(j + 1) = StartPosition(j) + Consumed(j)

(***************************************************************************)
(* C1: parse then build then parse is stable: when the template's array    *)
(* parameter, if any, is last and no parsed value is the number 0, build   *)
(* of the parsed params does not raise and its path parses to the same     *)
(* params.                                                                 *)
(***************************************************************************)
ArrayIsLast == \A j \in 1..Len(blocks) : IsArray(blocks[j]) => j = Len(blocks)

NoZero(params) ==
    \A name \in DOMAIN params :
        /\ params[name] # Num(0)
        /\ \A x \in 1..Len(params[name].a) : params[name].a[x] # Num(0)

C1_ParseBuildParse ==
    (ArrayIsLast /\ NoZero(buildParams.params)) =>
        /\ phase = "rebuilt" => buildResult.kind = "ok"
        /\ phase = "reparsed" =>
               /\ parseResult.kind = "ok"
               /\ parseResult.nullParams = buildParams.nullParams
               /\ parseResult.params = buildParams.params

(***************************************************************************)
(* C10: a template of n descriptors with no array parameter reads only the *)
(* first n raw segments: parse of a path has the outcome (null, or the     *)
(* same params) of its first n raw segments alone, so two paths that agree *)
(* there have the same outcome.                                            *)
(***************************************************************************)
NoArray == \A j \in 1..Len(blocks) : ~IsArray(blocks[j])

SameOutcome(r1, r2) ==
    /\ r1.kind = r2.kind
    /\ r1.nullParams = r2.nullParams
    /\ r1.params = r2.params

FirstSegments(raw) == SubSeq(raw, 1, Min({Len(blocks), Len(raw)}))

C10_OnlyFirstSegmentsRead ==
    (ParseReturned /\ NoArray) =>
        SameOutcome(parseResult,
                    parseLoop(blocks, parseInput, FirstSegments(RawOfInput), 1, TRUE, NoParams))

\* a path runs past the template's descriptors and parse returns params
C10_Witness ==
    /\ phase = "parsed" /\ NoArray
    /\ Len(blocks) = 2
    /\ Len(RawOfInput) > Len(blocks)
    /\ parseResult.kind = "ok" /\ ~parseResult.nullParams

(***************************************************************************)
(* C6: an array parameter that is the last descriptor: with no raw segment *)
(* left at its position parse returns null for "+" and the empty sequence  *)
(* for "*"; with k >= 1 segments left that each pass the base validation   *)
(* parse succeeds and the value is those k typed values in path order      *)
(* (the descriptors before it matching).                                   *)
(***************************************************************************)
LastIsArray == Len(blocks) >= 1 /\ IsArray(blocks[Len(blocks)])

\* the modifier the last token is written with
LastModifier == Tokens[Len(Tokens)][Len(Tokens[Len(Tokens)])]

C6_ArrayMinimumCount ==
    (ParseReturned /\ LastIsArray) =>
        LET n == Len(blocks)
            b == blocks[n]
            raw == RawOfInput
            rest == Rest(raw, n)
            modifier == LastModifier
        IN  /\ (rest = <<>> /\ modifier = "+") => parseResult.kind = "null"
            /\ (rest = <<>> /\ modifier = "*" /\ PrefixOk(raw, n)) =>
                   /\ parseResult.kind = "ok"
                   /\ parseResult.params[b.name] = Arr(<<>>)
            /\ (rest # <<>> /\ ~SomeFails(b.rules, rest) /\ PrefixOk(raw, n)) =>
                   /\ parseResult.kind = "ok"
                   /\ parseResult.params[b.name] = TypedAll(b.rules, rest)

\* "/p/:i*" has parsed "/p": the parameter is the empty sequence
C6_Witness ==
    /\ phase = "parsed" /\ LastIsArray
    /\ Len(blocks) = 2 /\ blocks[1].type = "part"
    /\ LastModifier = "*"
    /\ Rest(RawOfInput, 2) = <<>>
    /\ parseResult.kind = "ok"
    /\ parseResult.params[blocks[2].name] = Arr(<<>>)

(***************************************************************************)
(* C7: membership in a declared union.  As claimed: for every parameter    *)
(* written with a "|"-separated set between "<" and ">", with any          *)
(* modifier, parse returns null when a raw segment the parameter captures  *)
(* is not in the set.                                                      *)
(***************************************************************************)
FirstIndex(tok, c) == Min({x \in 1..Len(tok) : tok[x] = c})

\* the text between the token's "<" and ">"
UnionText(tok) == SubSeq(tok, FirstIndex(tok, "<") + 1, FirstIndex(tok, ">") - 1)

DeclaresUnion(tok) ==
    /\ tok[1] = ":"
    /\ Includes(tok, "<") /\ Includes(tok, ">")
    /\ FirstIndex(tok, "<") < FirstIndex(tok, ">")
    /\ Includes(UnionText(tok), "|")

DeclaredSet(tok) ==
    LET members == FilterBoolean(Split(UnionText(tok), "|"))
    IN  {members[x] : x \in 1..Len(members)}

WordLiterals(tok) ==
    LET text == UnionText(tok)
    IN  \A x \in 1..Len(text) : text[x] \in WordChars \cup {"|"}

WrittenAsArray(tok) == tok[Len(tok)] \in {"+", "*"}

\* the raw segments the parameter written as token j captures
Captured(tok, raw, j) ==
    IF WrittenAsArray(tok) THEN Rest(raw, j)
    ELSE IF j <= Len(raw) THEN <<raw[j]>>
    ELSE <<>>

SomeNotIn(segs, set) == \E x \in 1..Len(segs) : segs[x] \notin set

CapturedValue(tok, captured) ==
    IF WrittenAsArray(tok) THEN Arr([x \in 1..Len(captured) |-> Str(captured[x])])
    ELSE IF captured = <<>> THEN Undefined
    ELSE Str(captured[1])

RECURSIVE ValidRun(_, _)
ValidRun(rules, rest) ==
    IF rest = <<>> \/ ~baseValidator(rules, Head(rest)) THEN <<>>
    ELSE <<Head(rest)>> \o ValidRun(rules, Tail(rest))

C9_FailingSegmentEndsConsumption ==
    (ParseReturned /\ LastIsArray) =>
        LET n == Len(blocks)
            raw == RawOfInput
            run == ValidRun(blocks[n].rules, Rest(raw, n))
        IN  PrefixOk(raw, n) =>
                IF Len(run) < blocks[n].rules.minLength THEN parseResult.kind = "null"
                ELSE /\ parseResult.kind = "ok"
                     /\ parseResult.params[blocks[n].name] = TypedAll(blocks[n].rules, run)

(***************************************************************************)
(* C9 as amended: an array parameter consumes the raw segments from its    *)
(* position to the end of the path; a segment among them that fails the    *)
(* base validation fails the parse, as does a count below the minimum      *)
(* (1 for "+", 0 for "*"); otherwise the descriptor matches, and the       *)
(* value of the parameter (the last of its name) is every one of those     *)
(* segments, typed, in path order.                                         *)
(***************************************************************************)
C9_ArrayConsumesToTheEnd ==
    ParseReturned =>
        LET raw == RawOfInput
        IN  \A j \in 1..Len(blocks) :
                IsArray(blocks[j]) =>
                    LET rules == blocks[j].rules
                        rest == Rest(raw, j)
                        fails == SomeFails(rules, rest) \/ Len(rest) < rules.minLength
                    IN  /\ fails => parseResult.kind = "null"
                        /\ (~fails /\ j = Len(blocks) /\ PrefixOk(raw, j))
                               => parseResult.kind = "ok"
                        /\ (parseResult.kind = "ok" /\ LastOfName(j))
                               => parseResult.params[blocks[j].name] = TypedAll(rules, rest)

\* a "*" array behind matching descriptors: its first segment passes the
\* base validation, a later one fails it, and parse returns null
C9_Witness ==
    /\ phase = "parsed" /\ LastIsArray /\ PrefixOk(RawOfInput, Len(blocks))
    /\ blocks[Len(blocks)].rules.minLength = 0
    /\ Len(ValidRun(blocks[Len(blocks)].rules, Rest(RawOfInput, Len(blocks)))) = 1
    /\ SomeFails(blocks[Len(blocks)].rules, Rest(RawOfInput, Len(blocks)))
    /\ parseResult.kind = "null"

(***************************************************************************)
(* C2: build then parse of a required string parameter.  As claimed: for   *)
(* a template of literals and one required untyped parameter and every     *)
(* non-empty string v, build({id: v}) parses to params.id = v.             *)
(***************************************************************************)
ParameterBlocks == {j \in 1..Len(blocks) : blocks[j].type = "parameter"}

\* the blocks are literals and one required, untyped, single parameter
SingleRequiredString ==
    /\ Cardinality(ParameterBlocks) = 1
    /\ \A j \in ParameterBlocks :
           blocks[j].required /\ ~blocks[j].rules.array /\ blocks[j].rules.type = "string"

TheName == blocks[CHOOSE j \in ParameterBlocks : TRUE].name

\* build was given a non-empty string for the single parameter
GivenString ==
    /\ phase \in {"built", "builtParsed"}
    /\ SingleRequiredString
    /\ Lookup(buildParams.params, TheName).k = "string"
    /\ Lookup(buildParams.params, TheName).s # <<>>

BuildParseReturnsValue ==
    /\ buildResult.kind = "ok"
    /\ phase = "builtParsed" =>
           /\ parseResult.kind = "ok"
           /\ Lookup(parseResult.params, TheName) = Lookup(buildParams.params, TheName)

C2_BuildThenParse == GivenString => BuildParseReturnsValue

(***************************************************************************)
(* C2 as amended: the same for every non-empty string v with no "/" in it. *)
(***************************************************************************)
C2_BuildThenParseNoSlash ==
    (GivenString /\ ~Includes(Lookup(buildParams.params, TheName).s, "/"))
        => BuildParseReturnsValue

\* "%" was built behind a literal, escaped, and parsed back
C2_Witness ==
    /\ GivenString /\ phase = "builtParsed"
    /\ Len(blocks) = 2
    /\ Lookup(buildParams.params, TheName) = Str(<<"%">>)
    /\ Lookup(parseResult.params, TheName) = Str(<<"%">>)

(***************************************************************************)
(* C3: when build raises.  As claimed: exactly when a required parameter   *)
(* is missing (absent, undefined or null) or a supplied value is or holds  *)
(* a non-array object; for every other mapping, one with a falsy scalar    *)
(* (0, "", false) for a required or optional parameter included, it        *)
(* returns a path that begins with "/".                                    *)
(***************************************************************************)
GivenValue(j) == Lookup(buildParams.params, blocks[j].name)

RECURSIVE HoldsObject(_)
HoldsObject(v) ==
    \/ v.k \in {"object", "null"}
    \/ v.k = "array" /\ \E x \in 1..Len(v.a) : HoldsObject(v.a[x])

C3_BuildRaisesInTwoCases ==
    phase = "built" =>
        LET missing == \E j \in ParameterBlocks :
                           blocks[j].required /\ GivenValue(j) \in {Undefined, NullV}
            object == \E j \in ParameterBlocks :
                           GivenValue(j) # NullV /\ HoldsObject(GivenValue(j))
        IN  IF missing \/ object THEN buildResult.kind \in {"missing", "object"}
            ELSE buildResult.kind = "ok" /\ buildResult.path[1] = "/"

(***************************************************************************)
(* C3 as amended: build raises exactly when some parameter, in template    *)
(* order, either is required and its value is falsy (absent, undefined,    *)
(* null, "", 0 or false), and then the error names that parameter, or has  *)
(* a value that is a non-array object or an array holding an object or     *)
(* null.  Otherwise it returns a path that begins with "/", the path built *)
(* when the falsy values are left out of the mapping: the falsy value of   *)
(* an optional parameter contributes no segment.                           *)
(***************************************************************************)
Falsy(v) == v \in {Undefined, NullV, Str(<<>>), Num(0), False}

Offends(j) ==
    \/ blocks[j].required /\ Falsy(GivenValue(j))
    \/ ~Falsy(GivenValue(j)) /\ HoldsObject(GivenValue(j))

WithoutFalsy(p) ==
    Mapping([name \in {x \in DOMAIN p.params : ~Falsy(p.params[x])} |-> p.params[name]])

C3_BuildRaisesOnFalsyOrObject ==
    phase = "built" =>
        IF \E j \in ParameterBlocks : Offends(j)
        THEN LET first == Min({j \in ParameterBlocks : Offends(j)})
             IN  IF Falsy(GivenValue(first))
                 THEN buildResult.kind = "missing" /\ buildResult.name = blocks[first].name
                 ELSE buildResult.kind = "object"
        ELSE /\ buildResult.kind = "ok"
             /\ buildResult.path[1] = "/"
             /\ buildResult.path = build(blocks, WithoutFalsy(buildParams)).path

\* a required parameter given 0 behind a literal: build raises and names it
C3_Witness ==
    /\ phase = "built"
    /\ Len(blocks) = 2 /\ blocks[1].type = "part"
    /\ blocks[2].type = "parameter" /\ blocks[2].required
    /\ GivenValue(2) = Num(0)
    /\ buildResult.kind = "missing" /\ buildResult.name = blocks[2].name

====
